---- MODULE Spec2Model ----
(***************************************************************************)
(* Session lifecycle of the assessment backend (src/backend.js): the       *)
(* in-memory session map, the periodic idle sweep and the three POST       *)
(* handlers.  Each handler runs to completion except at its single await   *)
(* (the text-generator call), where other handlers and the sweep may run.  *)
(***************************************************************************)
EXTENDS Integers, Sequences, FiniteSets, TLC

VARIABLES
    sessions,   \* the Map `sessions`: session id -> session object
    nextId,     \* the ids uuidv4 has produced so far are 1..nextId-1
    now,        \* the clock read by Date.now(), in ms since process start
    nextSweep,  \* the time at which the setInterval timer is next due
    inflight,   \* handlers suspended at `await openai.chat.completions.create`
    nreq,       \* number of POST requests received so far
    resp,       \* the response most recently written with res.json
    reports,    \* per session id, how many generate-report responses succeeded
    gen,        \* the outcome of the generator call that settled last
    completed   \* the session ids a response with isComplete = true was sent for

vars == <<sessions, nextId, now, nextSweep, inflight, nreq, resp, reports, gen,
          completed>>

----------------------------------------------------------------------------
(* Bounds of the model *)

MaxSessions == 2
MaxRequests == 3
MaxLate == 1
MaxTurns == 5
MaxOptionLines == 5
MaxDigits == 3
MaxPeriods == 2

(* Program constants *)

IdleMs == 1800000
SweepPeriodMs == 1800000
CompleteAt == 5
FirstQuestionNumber == 1

----------------------------------------------------------------------------
(* Values *)

Null == "null"
NoId == 0

\* uuidv4() draws 122 random bits: the model takes its results to be pairwise
\* distinct and numbers them in the order they are drawn.
Uuids == 1..MaxSessions

\* Clock readings the model lets Date.now() take: process start, the
\* millisecond after it, and the time the sweep timer is first due plus up
\* to MaxLate ms.
Times == {0, 1} \cup {SweepPeriodMs + late : late \in 0..MaxLate}

\* Request bodies the clients send.  NoId, "" and 0 are the falsy values of
\* a missing or empty field.  The question numbers are one of each kind the
\* handler tells apart: falsy, the first question, and the completing ones;
\* the sequential client of SpecSeq sends 1 to 5 in turn.
SessionIdInputs == {NoId} \cup Uuids
SelectedAnswerInputs == {"", "A", "B"}
QuestionNumberInputs == {0, 1, 5}

----------------------------------------------------------------------------
(* Text: a string is the sequence of its characters *)

Whitespace == {" ", "\n", "\t", "\r"}
DigitChars == <<"0", "1", "2", "3", "4", "5", "6", "7", "8", "9">>
UpperChars == <<"A", "B", "C", "D", "E", "F", "G", "H", "I", "J", "K", "L", "M",
                "N", "O", "P", "Q", "R", "S", "T", "U", "V", "W", "X", "Y", "Z">>
LowerChars == <<"a", "b", "c", "d", "e", "f", "g", "h", "i", "j", "k", "l", "m",
                "n", "o", "p", "q", "r", "s", "t", "u", "v", "w", "x", "y", "z">>

IsDigit(c) == \E k \in 1..10 : DigitChars[k] = c

DigitValue(c) == (CHOOSE k \in 1..10 : DigitChars[k] = c) - 1

\* Case folding of the regular expressions' /i flag
Lower(c) ==
    IF \E k \in 1..26 : UpperChars[k] = c
    THEN LowerChars[CHOOSE k \in 1..26 : UpperChars[k] = c]
    ELSE c

Min(a, b) == IF a < b THEN a ELSE b

\* s.slice(i - 1): the characters of s from position i on
From(s, i) == SubSeq(s, i, Len(s))

RECURSIVE TrimLeft(_)
TrimLeft(s) ==
    IF s # <<>> /\ Head(s) \in Whitespace THEN TrimLeft(Tail(s)) ELSE s

RECURSIVE TrimRight(_)
TrimRight(s) ==
    IF s # <<>> /\ s[Len(s)] \in Whitespace
    THEN TrimRight(SubSeq(s, 1, Len(s) - 1))
    ELSE s

\* String.prototype.trim
Trim(s) == TrimRight(TrimLeft(s))

\* s.split('\n')
RECURSIVE SplitLines(_)
SplitLines(s) ==
    IF \E i \in 1..Len(s) : s[i] = "\n"
    THEN LET i == CHOOSE j \in 1..Len(s) :
                    s[j] = "\n" /\ \A k \in 1..(j - 1) : s[k] # "\n"
         IN <<SubSeq(s, 1, i - 1)>> \o SplitLines(From(s, i + 1))
    ELSE <<s>>

IsBlank(line) == Trim(line) = <<>>

NotBlank(line) == ~IsBlank(line)

\* s.split('\n').filter(line => line.trim() !== '')
NonBlankLines(s) == SelectSeq(SplitLines(s), NotBlank)

TrimAll(ls) == [i \in 1..Len(ls) |-> Trim(ls[i])]

\* pat (given in lower case) matches s at position i, ignoring case
MatchAt(s, i, pat) ==
    /\ i >= 1
    /\ i + Len(pat) - 1 <= Len(s)
    /\ \A j \in 1..Len(pat) : Lower(s[i + j - 1]) = pat[j]

\* array.join(sep) of an array of strings
RECURSIVE Join(_, _)
Join(ss, sep) ==
    IF ss = <<>> THEN <<>>
    ELSE IF Len(ss) = 1 THEN ss[1]
    ELSE ss[1] \o sep \o Join(Tail(ss), sep)

----------------------------------------------------------------------------
(* Parsing of the generated text *)

\* /[A-D]\. .*/.test(line): a letter A-D, a period and a space anywhere in
\* the line (the pattern is not anchored and .* may match nothing)
OptionLetters == {"A", "B", "C", "D"}

IsOption(line) ==
    \E i \in 1..(Len(line) - 2) :
        /\ line[i] \in OptionLetters
        /\ line[i + 1] = "."
        /\ line[i + 2] = " "

\* lines[0] || "" and lines.slice(1, 5).filter(...)
QuestionOf(lines) == IF lines = <<>> THEN <<>> ELSE lines[1]

OptionsOf(lines) == SelectSeq(SubSeq(lines, 2, Min(5, Len(lines))), IsOption)

\* The number of leading digits of s (\d+ is greedy)
RECURSIVE DigitRun(_)
DigitRun(s) ==
    IF s # <<>> /\ IsDigit(Head(s)) THEN 1 + DigitRun(Tail(s)) ELSE 0

\* parseInt(ds, 10) of a string of digits
RECURSIVE ParseInt(_)
ParseInt(ds) ==
    IF ds = <<>> THEN 0
    ELSE 10 * ParseInt(SubSeq(ds, 1, Len(ds) - 1)) + DigitValue(ds[Len(ds)])

ChaosScorePattern ==
    <<"c", "h", "a", "o", "s", " ", "s", "c", "o", "r", "e", ":", " ">>

\* aiContent.match(/Chaos score: (\d+)/i): the positions where it matches
ScoreMatches(s) ==
    {i \in 1..Len(s) :
        /\ MatchAt(s, i, ChaosScorePattern)
        /\ DigitRun(From(s, i + Len(ChaosScorePattern))) > 0}

ScoreOf(s) ==
    IF ScoreMatches(s) = {} THEN 0
    ELSE LET i == CHOOSE j \in ScoreMatches(s) : \A k \in ScoreMatches(s) : j <= k
             ds == From(s, i + Len(ChaosScorePattern))
         IN ParseInt(SubSeq(ds, 1, DigitRun(ds)))

TopPattern == <<"t", "o", "p", " ">>
IssuesPattern ==
    <<" ", "o", "p", "e", "r", "a", "t", "i", "o", "n", "a", "l", " ",
      "i", "s", "s", "u", "e", "s", ":", "\n">>
RecommendationPattern ==
    <<"\n", "r", "e", "c", "o", "m", "m", "e", "n", "d", "a", "t", "i", "o", "n">>
RecommendationsPattern ==
    <<"r", "e", "c", "o", "m", "m", "e", "n", "d", "a", "t", "i", "o", "n", "s",
      ":", "\n">>

\* Where the capture group of
\* /Top \d+ operational issues:\n([\s\S]*?)(?:\nRecommendation|$)/i starts,
\* for a match beginning at position i; 0 when there is no match at i
IssuesStart(s, i) ==
    LET n == DigitRun(From(s, i + Len(TopPattern)))
        j == i + Len(TopPattern) + n
    IN IF MatchAt(s, i, TopPattern) /\ n > 0 /\ MatchAt(s, j, IssuesPattern)
       THEN j + Len(IssuesPattern)
       ELSE 0

IssuesMatches(s) == {i \in 1..Len(s) : IssuesStart(s, i) > 0}

\* The lazy group ends at the first "\nRecommendation" at or after its
\* start, or else at the end of the text
IssuesEnd(s, b) ==
    LET ends == {e \in b..Len(s) : MatchAt(s, e, RecommendationPattern)}
    IN IF ends = {} THEN Len(s) + 1
       ELSE CHOOSE e \in ends : \A f \in ends : e <= f

TopIssuesOf(s) ==
    IF IssuesMatches(s) = {} THEN <<>>
    ELSE LET i == CHOOSE j \in IssuesMatches(s) : \A k \in IssuesMatches(s) : j <= k
             b == IssuesStart(s, i)
         IN TrimAll(NonBlankLines(SubSeq(s, b, IssuesEnd(s, b) - 1)))

\* aiContent.match(/Recommendations:\n([\s\S]*)/i)
RecommendationsMatches(s) ==
    {i \in 1..Len(s) : MatchAt(s, i, RecommendationsPattern)}

RecommendationsOf(s) ==
    IF RecommendationsMatches(s) = {} THEN <<>>
    ELSE LET i == CHOOSE j \in RecommendationsMatches(s) :
                     \A k \in RecommendationsMatches(s) : j <= k
         IN TrimAll(NonBlankLines(From(s, i + Len(RecommendationsPattern))))

\* The data of a successful next-question response, less the turn fields
ParseQuestion(content) ==
    LET lines == NonBlankLines(Trim(content))
    IN [question |-> QuestionOf(lines), options |-> OptionsOf(lines)]

\* The data of a successful generate-report response
ParseReport(content) ==
    LET aiContent == Trim(content)
    IN [score |-> ScoreOf(aiContent),
        topIssues |-> TopIssuesOf(aiContent),
        recommendations |-> RecommendationsOf(aiContent)]

----------------------------------------------------------------------------
(* Texts the generator returns in the model *)

NL == <<"\n">>

QuestionText ==
    <<"Q", "?">> \o NL \o <<"A", ".", " ", "x">> \o NL \o <<"B", ".", " ", "y">>
    \o NL \o NL \o <<"n", "o", "t", "e">> \o NL \o <<"D", ".", " ", "w">> \o NL

ReportText ==
    <<"C", "h", "a", "o", "s", " ", "s", "c", "o", "r", "e", ":", " ", "7", "3">>
    \o NL \o <<"T", "o", "p", " ", "3">> \o IssuesPattern \o <<"1", ".", " ", "i">>
    \o NL \o <<"R", "e", "c", "o", "m", "m", "e", "n", "d", "a", "t", "i", "o", "n",
               "s", ":">> \o NL \o <<"1", ".", " ", "r">>

GenTexts == {QuestionText, ReportText}

\* Texts for the parsers: a question line followed by up to MaxOptionLines
\* lines, each an option, a line with a letter outside A-D, an option with
\* text in front of its letter, or a blank line
OptionLineKinds ==
    {<<"A", ".", " ", "x">>, <<"E", ".", " ", "v">>, <<"z", "B", ".", " ", "y">>,
     <<>>}

LineSeqs(kinds, n) == UNION {[1..k -> kinds] : k \in 0..n}

QuestionTexts ==
    {<<>>} \cup {<<"Q", "?">> \o NL \o Join(ls, NL) :
                    ls \in LineSeqs(OptionLineKinds, MaxOptionLines)}

\* Texts with a score line: a label in either case or without its space, up
\* to MaxDigits digits, possibly text in front and a second score behind
ScoreLabels ==
    {<<"C", "h", "a", "o", "s", " ", "s", "c", "o", "r", "e", ":", " ">>,
     <<"C", "H", "A", "O", "S", " ", "S", "C", "O", "R", "E", ":", " ">>,
     <<"C", "h", "a", "o", "s", " ", "s", "c", "o", "r", "e", ":">>}

ScoreTexts ==
    {front \o label \o digits \o behind :
        front \in {<<>>, <<"x", " ">>},
        label \in ScoreLabels,
        digits \in LineSeqs({"0", "1", "7"}, MaxDigits),
        behind \in {<<>>, NL \o ChaosScorePattern \o <<"9">>}}

ParseTexts == QuestionTexts \cup ScoreTexts

\* The parse of each text the generator can return
QuestionData == [content \in GenTexts \cup ParseTexts |-> ParseQuestion(content)]

ReportData == [content \in GenTexts \cup ParseTexts |-> ParseReport(content)]

----------------------------------------------------------------------------
(* Map helpers *)

MapHas(m, k) == k \in DOMAIN m

MapSet(m, k, v) == [x \in (DOMAIN m) \cup {k} |-> IF x = k THEN v ELSE m[x]]

MapDelete(m, k) == [x \in (DOMAIN m) \ {k} |-> m[x]]

NewSession(t) == [businessType |-> Null, answers |-> <<>>, lastActivity |-> t]

firstQuestion ==
    [question |-> "What best describes your business?",
     options |-> <<"A. Retail and E-commerce",
                   "B. Service-based Business (consulting, agency, etc.)",
                   "C. Manufacturing and Production",
                   "D. Technology and Software Development">>,
     questionNumber |-> FirstQuestionNumber,
     isComplete |-> FALSE]

NoResp == [rid |-> 0, kind |-> "none", sessionId |-> NoId, status |-> 0]

\* The generator's reply to request rid: text, or an error thrown
NoGen == [rid |-> 0, ok |-> FALSE, content |-> <<>>]

Generated(rid, content) == [rid |-> rid, ok |-> TRUE, content |-> content]

GenerationError(rid) == [rid |-> rid, ok |-> FALSE, content |-> <<>>]

----------------------------------------------------------------------------
(* Initial state: the module has been loaded, the timer registered *)

Init ==
    /\ sessions = <<>>
    /\ nextId = 1
    /\ now = 0
    /\ nextSweep = SweepPeriodMs
    /\ inflight = {}
    /\ nreq = 0
    /\ resp = NoResp
    /\ reports = [s \in Uuids |-> 0]
    /\ gen = NoGen
    /\ completed = {}

----------------------------------------------------------------------------
(* Time passes *)

Tick(t) ==
    /\ t > now
    /\ now' = t
    /\ UNCHANGED <<sessions, nextId, nextSweep, inflight, nreq, resp, reports, gen, completed>>

(* The setInterval callback: evict every session idle for more than IdleMs *)

\* Variant: the idle limit is taken a thousand times too long
ExpiredWrongUnit(session, t) == t - session.lastActivity > IdleMs * 1000

\* Variant: a session idle for exactly IdleMs is evicted too
ExpiredAtThreshold(session, t) == t - session.lastActivity >= IdleMs

Expired(session, t) == t - session.lastActivity > IdleMs

SweepStore(m, t) == [x \in {y \in DOMAIN m : ~Expired(m[y], t)} |-> m[x]]

Sweep ==
    /\ now >= nextSweep
    /\ sessions' = SweepStore(sessions, now)
    /\ nextSweep' = now + SweepPeriodMs
    /\ UNCHANGED <<nextId, now, inflight, nreq, resp, reports, gen, completed>>

(* POST /api/start-assessment *)

\* Variant: the generator hands out an identifier it has handed out before
Uuidv4Repeats(n) == 1

\* uuidv4(): a value not handed out before; the n-th call is numbered n
Uuidv4(n) == n

StartAssessment ==
    /\ nextId \in Uuids
    /\ LET sessionId == Uuidv4(nextId) IN
        /\ sessions' = MapSet(sessions, sessionId, NewSession(now))
        /\ nextId' = nextId + 1
        /\ nreq' = nreq + 1
        /\ resp' = [rid |-> nreq + 1, kind |-> "start", sessionId |-> sessionId,
                    status |-> 200,
                    body |-> [success |-> TRUE,
                              data |-> [sessionId |-> sessionId,
                                        question |-> firstQuestion.question,
                                        options |-> firstQuestion.options,
                                        questionNumber |-> firstQuestion.questionNumber,
                                        isComplete |-> firstQuestion.isComplete]]]
    /\ UNCHANGED <<now, nextSweep, inflight, reports, gen, completed>>

(* POST /api/next-question *)

\* Variant: only the session id is validated
MissingFieldIdOnly(sessionId, selectedAnswer, questionNumber) == sessionId = NoId

\* !sessionId || !selectedAnswer || !questionNumber
MissingField(sessionId, selectedAnswer, questionNumber) ==
    sessionId = NoId \/ selectedAnswer = "" \/ questionNumber = 0

\* session.lastActivity = Date.now()
\* Variant: the handler does not refresh lastActivity
TouchOmitted(session, t) == session

Touch(session, t) == [session EXCEPT !.lastActivity = t]

\* `Question ${questionNumber}: ${selectedAnswer}`
AnswerEntry(questionNumber, selectedAnswer) ==
    <<"Question ", ToString(questionNumber), ": ", selectedAnswer>>

\* Variant: the business type is stored only while it is still null
StoreBusinessTypeOnce(session, selectedAnswer, questionNumber) ==
    IF questionNumber = 1 /\ session.businessType = Null
    THEN [session EXCEPT !.businessType = selectedAnswer]
    ELSE session

\* if (questionNumber === 1) session.businessType = selectedAnswer
StoreBusinessType(session, selectedAnswer, questionNumber) ==
    IF questionNumber = 1
    THEN [session EXCEPT !.businessType = selectedAnswer]
    ELSE session

\* session.answers.push(...)
\* Variant: the entry is put in front of the list (unshift for push)
PushAnswerFront(session, selectedAnswer, questionNumber) ==
    [session EXCEPT
        !.answers = <<AnswerEntry(questionNumber, selectedAnswer)>> \o @]

PushAnswer(session, selectedAnswer, questionNumber) ==
    [session EXCEPT
        !.answers = Append(@, AnswerEntry(questionNumber, selectedAnswer))]

RecordAnswer(session, selectedAnswer, questionNumber, t) ==
    PushAnswer(StoreBusinessType(Touch(session, t), selectedAnswer, questionNumber),
               selectedAnswer, questionNumber)

\* Variant: the prompt is built from the answers before the current push
QuestionPromptBeforePush(session) ==
    <<"Business type: ", session.businessType, ", Previous answers: ">>
    \o Join(SubSeq(session.answers, 1, Len(session.answers) - 1), <<"; ">>)
    \o <<". Generate next revealing question about their operations with 4 options A-D from organized to chaotic.">>

QuestionPrompt(session) ==
    <<"Business type: ", session.businessType, ", Previous answers: ">>
    \o Join(session.answers, <<"; ">>)
    \o <<". Generate next revealing question about their operations with 4 options A-D from organized to chaotic.">>

\* Variant: completion is declared one question later
IsCompleteAfter(questionNumber) == questionNumber > CompleteAt

IsComplete(questionNumber) == questionNumber >= CompleteAt

Reply(rid, kind, sessionId, status, body) ==
    [rid |-> rid, kind |-> kind, sessionId |-> sessionId, status |-> status,
     body |-> body]

Failure(message) == [success |-> FALSE, error |-> message]

\* Variant: the session is looked up and updated before the fields are
\* validated
AnswerStoreUnvalidated(m, sessionId, selectedAnswer, questionNumber, t) ==
    IF ~MapHas(m, sessionId) THEN m
    ELSE MapSet(m, sessionId,
                RecordAnswer(m[sessionId], selectedAnswer, questionNumber, t))

\* What the handler does to the store before its await: nothing when it
\* returns 400 or 404, else the touch, the businessType and the push
AnswerStore(m, sessionId, selectedAnswer, questionNumber, t) ==
    IF MissingField(sessionId, selectedAnswer, questionNumber) THEN m
    ELSE IF ~MapHas(m, sessionId) THEN m
    ELSE MapSet(m, sessionId,
                RecordAnswer(m[sessionId], selectedAnswer, questionNumber, t))

\* The handler up to its await
NextQuestion(sessionId, selectedAnswer, questionNumber) ==
    /\ nreq' = nreq + 1
    /\ sessions' = AnswerStore(sessions, sessionId, selectedAnswer, questionNumber, now)
    /\ IF MissingField(sessionId, selectedAnswer, questionNumber)
       THEN /\ resp' = Reply(nreq + 1, "next", sessionId, 400,
                    Failure("Missing sessionId, selectedAnswer, or questionNumber"))
            /\ UNCHANGED inflight
       ELSE IF ~MapHas(sessions, sessionId)
       THEN /\ resp' = Reply(nreq + 1, "next", sessionId, 404,
                    Failure("Session not found or expired"))
            /\ UNCHANGED inflight
       ELSE /\ inflight' = inflight \cup
                    {[rid |-> nreq + 1, kind |-> "next", sessionId |-> sessionId,
                      selectedAnswer |-> selectedAnswer,
                      questionNumber |-> questionNumber,
                      prompt |-> QuestionPrompt(sessions'[sessionId])]}
            /\ UNCHANGED resp
    /\ UNCHANGED <<nextId, now, nextSweep, reports, gen, completed>>

\* Variant: the catch block takes the last answer back
CatchStoreRollback(m, sessionId) ==
    IF MapHas(m, sessionId) /\ m[sessionId].answers # <<>>
    THEN MapSet(m, sessionId,
                [m[sessionId] EXCEPT
                    !.answers = SubSeq(@, 1, Len(@) - 1)])
    ELSE m

\* The catch block does nothing to the store
CatchStore(m, sessionId) == m

\* The generator returned `content`: the rest of the try block
NextQuestionReturn(r, content) ==
    /\ r \in inflight
    /\ r.kind = "next"
    /\ inflight' = inflight \ {r}
    /\ LET parsed == QuestionData[content] IN
        resp' = Reply(r.rid, "next", r.sessionId, 200,
                    [success |-> TRUE,
                     data |-> [question |-> parsed.question,
                               options |-> parsed.options,
                               questionNumber |-> r.questionNumber + 1,
                               isComplete |-> IsComplete(r.questionNumber)]])
    /\ gen' = Generated(r.rid, content)
    /\ completed' = IF IsComplete(r.questionNumber)
                  THEN completed \cup {r.sessionId}
                  ELSE completed
    /\ UNCHANGED <<sessions, nextId, now, nextSweep, nreq, reports>>

\* The generator call threw: the catch block
NextQuestionFail(r) ==
    /\ r \in inflight
    /\ r.kind = "next"
    /\ inflight' = inflight \ {r}
    /\ resp' = Reply(r.rid, "next", r.sessionId, 500,
                    Failure("Failed to generate next question"))
    /\ sessions' = CatchStore(sessions, r.sessionId)
    /\ gen' = GenerationError(r.rid)
    /\ UNCHANGED <<nextId, now, nextSweep, nreq, reports, completed>>

(* POST /api/generate-report *)

ReportPrompt(session) ==
    <<"Analyze responses: ">>
    \o Join(session.answers, <<"; ">>)
    \o <<". Create chaos score 1-100 and identify top 3 operational issues and provide actionable recommendations for each.">>

\* What the handler does to the store before its await: nothing when it
\* returns 400 or 404, else the touch
ReportStore(m, sessionId, t) ==
    IF sessionId = NoId THEN m
    ELSE IF ~MapHas(m, sessionId) THEN m
    ELSE MapSet(m, sessionId, Touch(m[sessionId], t))

\* The handler up to its await
GenerateReport(sessionId) ==
    /\ nreq' = nreq + 1
    /\ sessions' = ReportStore(sessions, sessionId, now)
    /\ IF sessionId = NoId
       THEN /\ resp' = Reply(nreq + 1, "report", sessionId, 400,
                    Failure("Missing sessionId"))
            /\ UNCHANGED inflight
       ELSE IF ~MapHas(sessions, sessionId)
       THEN /\ resp' = Reply(nreq + 1, "report", sessionId, 404,
                    Failure("Session not found or expired"))
            /\ UNCHANGED inflight
       ELSE /\ inflight' = inflight \cup
                    {[rid |-> nreq + 1, kind |-> "report", sessionId |-> sessionId,
                      prompt |-> ReportPrompt(sessions'[sessionId]),
                      before |-> sessions[sessionId]]}
            /\ UNCHANGED resp
    /\ UNCHANGED <<nextId, now, nextSweep, reports, gen, completed>>

\* Variant: the catch block closes the session as the success path does
ReportCatchStoreCloses(m, sessionId) == MapDelete(m, sessionId)

\* The catch block does nothing to the store
ReportCatchStore(m, sessionId) == m

\* Variant: the session is left in the store after the report
CloseSessionKeeps(m, sessionId) == m

\* sessions.delete(sessionId) after the report was sent
CloseSession(m, sessionId) == MapDelete(m, sessionId)

\* The generator returned `content`: the rest of the try block
GenerateReportReturn(r, content) ==
    /\ r \in inflight
    /\ r.kind = "report"
    /\ inflight' = inflight \ {r}
    /\ resp' = Reply(r.rid, "report", r.sessionId, 200,
                    [success |-> TRUE, data |-> ReportData[content]])
    /\ reports' = [reports EXCEPT ![r.sessionId] = @ + 1]
    /\ sessions' = CloseSession(sessions, r.sessionId)
    /\ gen' = Generated(r.rid, content)
    /\ UNCHANGED <<nextId, now, nextSweep, nreq, completed>>

\* The generator call threw: the catch block
GenerateReportFail(r) ==
    /\ r \in inflight
    /\ r.kind = "report"
    /\ inflight' = inflight \ {r}
    /\ resp' = Reply(r.rid, "report", r.sessionId, 500,
                    Failure("Failed to generate report"))
    /\ sessions' = ReportCatchStore(sessions, r.sessionId)
    /\ gen' = GenerationError(r.rid)
    /\ UNCHANGED <<nextId, now, nextSweep, nreq, reports, completed>>

----------------------------------------------------------------------------
Next ==
    \/ \E t \in Times : Tick(t)
    \/ Sweep
    \/ nreq < MaxRequests /\ StartAssessment
    \/ /\ nreq < MaxRequests
       /\ \E sessionId \in SessionIdInputs, selectedAnswer \in SelectedAnswerInputs,
             questionNumber \in QuestionNumberInputs :
            NextQuestion(sessionId, selectedAnswer, questionNumber)
    \/ \E r \in inflight, content \in GenTexts : NextQuestionReturn(r, content)
    \/ \E r \in inflight : NextQuestionFail(r)
    \/ nreq < MaxRequests /\ \E sessionId \in SessionIdInputs : GenerateReport(sessionId)
    \/ \E r \in inflight, content \in GenTexts : GenerateReportReturn(r, content)
    \/ \E r \in inflight : GenerateReportFail(r)

Spec == Init /\ [][Next]_vars

----------------------------------------------------------------------------
(* One client running one assessment, one request at a time: it answers the
   question it was last sent, under that question's number, until a response
   says isComplete, and then asks for the report.  Every generator call
   returns text and no sweep evicts a session. *)

ClientIdle == inflight = {}

ClientAnswers ==
    /\ ClientIdle
    /\ resp.kind \in {"start", "next"}
    /\ resp.status = 200
    /\ ~resp.body.data.isComplete

ClientDone ==
    /\ ClientIdle
    /\ resp.kind = "next"
    /\ resp.status = 200
    /\ resp.body.data.isComplete

NextSeq ==
    \/ \E t \in Times : Tick(t)
    \/ Sweep /\ sessions' = sessions
    \/ nreq = 0 /\ StartAssessment
    \/ /\ ClientAnswers
       /\ \E selectedAnswer \in SelectedAnswerInputs \ {""} :
            NextQuestion(resp.sessionId, selectedAnswer,
                         resp.body.data.questionNumber)
    \/ \E r \in inflight, content \in GenTexts : NextQuestionReturn(r, content)
    \/ ClientDone /\ GenerateReport(resp.sessionId)
    \/ \E r \in inflight, content \in GenTexts : GenerateReportReturn(r, content)

SpecSeq == Init /\ [][NextSeq]_vars

(* One client that answers one question at a time on one session but picks
   the questionNumber of each request freely: it may repeat a number or skip
   ahead.  Every generator call returns text. *)

TurnNumberInputs == {1, 4, 5}

ClientTurn ==
    /\ ClientIdle
    /\ resp.kind \in {"start", "next"}
    /\ resp.status = 200
    /\ nreq <= MaxTurns

NextTurns ==
    \/ nreq = 0 /\ StartAssessment
    \/ /\ ClientTurn
       /\ \E questionNumber \in TurnNumberInputs :
            NextQuestion(resp.sessionId, "A", questionNumber)
    \/ \E r \in inflight, content \in GenTexts : NextQuestionReturn(r, content)

SpecTurns == Init /\ [][NextTurns]_vars

(* One client that posts one next-question or one generate-report request on
   a fresh session; the generator returns any of the texts of ParseTexts. *)

NextParse ==
    \/ nreq = 0 /\ StartAssessment
    \/ nreq = 1 /\ NextQuestion(resp.sessionId, "A", FirstQuestionNumber)
    \/ nreq = 1 /\ GenerateReport(resp.sessionId)
    \/ \E r \in inflight, content \in ParseTexts : NextQuestionReturn(r, content)
    \/ \E r \in inflight, content \in ParseTexts : GenerateReportReturn(r, content)

SpecParse == Init /\ [][NextParse]_vars

----------------------------------------------------------------------------
(* The server with its timer: clients post their requests during the first
   sweep period and then fall silent, while the clock runs on for MaxPeriods
   periods, the timer callback runs whenever it is due, and the generator
   may answer at any time or never. *)

LiveTimes == {period * SweepPeriodMs + ms : period \in 0..MaxPeriods, ms \in {0, 1}}

ClientsActive == now < SweepPeriodMs /\ nreq < MaxRequests

NextLive ==
    \/ \E t \in LiveTimes : Tick(t)
    \/ Sweep
    \/ ClientsActive /\ StartAssessment
    \/ /\ ClientsActive
       /\ \E sessionId \in Uuids, questionNumber \in {FirstQuestionNumber, CompleteAt} :
            NextQuestion(sessionId, "A", questionNumber)
    \/ \E r \in inflight : NextQuestionReturn(r, QuestionText)
    \/ \E r \in inflight : NextQuestionFail(r)
    \/ ClientsActive /\ \E sessionId \in Uuids : GenerateReport(sessionId)
    \/ \E r \in inflight : GenerateReportReturn(r, ReportText)
    \/ \E r \in inflight : GenerateReportFail(r)

\* setInterval keeps calling the callback and the clock keeps running
SpecLive ==
    /\ Init
    /\ [][NextLive]_vars
    /\ WF_vars(Sweep)
    /\ WF_vars(\E t \in LiveTimes : Tick(t))

----------------------------------------------------------------------------
(* Properties *)

Issued == 1..(nextId - 1)

\* The session of an issued id is gone without a report having closed it:
\* the sweep evicted it
Evicted(sid) == sid \in Issued /\ ~MapHas(sessions, sid) /\ reports[sid] = 0

ReportFields == {"score", "topIssues", "recommendations"}

\* C1: in a run start-assessment, five next-question calls numbered 1..5,
\* generate-report, made one after the other with every generator call
\* returning text and no session evicted, the generate-report request is
\* answered with success and a Report, and the session id is absent from
\* the store from then on.
C1_ValidRunEndsClosed ==
    resp.kind = "report" =>
        /\ resp.status = 200
        /\ resp.body.success
        /\ DOMAIN resp.body.data = ReportFields
        /\ ~MapHas(sessions, resp.sessionId)

\* The report of C1's run was the seventh request: one start, five answers,
\* one generate-report
C1_Witness ==
    /\ resp.kind = "report"
    /\ resp.rid = 7
    /\ reports[resp.sessionId] = 1

\* C2: a generate-report whose generator call returns text is answered with
\* success, and a generate-report request that arrives for a session id
\* after a generate-report on that id has succeeded is answered 404.
C2_SecondReportNotFound ==
    [][\A sid \in Uuids :
        /\ \A r \in inflight \ inflight', content \in GenTexts :
              (r.sessionId = sid /\ GenerateReportReturn(r, content)) =>
                  /\ resp'.rid = r.rid
                  /\ resp'.status = 200
                  /\ resp'.body.success
        /\ (reports[sid] >= 1 /\ nreq' # nreq /\ GenerateReport(sid)) =>
              /\ resp'.rid = nreq'
              /\ resp'.kind = "report"
              /\ resp'.status = 404
              /\ ~resp'.body.success
              /\ inflight' = inflight]_vars

C2_Witness ==
    /\ resp.kind = "report"
    /\ resp.status = 404
    /\ resp.sessionId \in Uuids
    /\ reports[resp.sessionId] = 1

\* C3: for every session id at most one generate-report request ever
\* returns success, whatever the interleaving of the requests.
C3_OneShot == \A sid \in Uuids : reports[sid] <= 1

\* C4 as stated: a next-question or generate-report request on a session id
\* that is not in the store is answered 404 whatever its other fields are.
C4_NotFoundRegardless ==
    [][\A sid \in Uuids :
        (nreq' # nreq /\ ~MapHas(sessions, sid)) =>
            /\ \A selectedAnswer \in SelectedAnswerInputs,
                  questionNumber \in QuestionNumberInputs :
                  NextQuestion(sid, selectedAnswer, questionNumber) =>
                      resp'.status = 404
            /\ GenerateReport(sid) => resp'.status = 404]_vars

\* C4 amended: such a request is answered 404 when its other required
\* fields are present; a next-question request with selectedAnswer or
\* questionNumber missing, empty or zero is answered 400 instead.
C4_NotFoundWhenValid ==
    [][\A sid \in Uuids :
        (nreq' # nreq /\ ~MapHas(sessions, sid)) =>
            /\ \A selectedAnswer \in SelectedAnswerInputs,
                  questionNumber \in QuestionNumberInputs :
                  NextQuestion(sid, selectedAnswer, questionNumber) =>
                      /\ resp'.rid = nreq'
                      /\ resp'.kind = "next"
                      /\ resp'.status =
                            IF selectedAnswer = "" \/ questionNumber = 0
                            THEN 400 ELSE 404
                      /\ inflight' = inflight
            /\ GenerateReport(sid) =>
                  /\ resp'.rid = nreq'
                  /\ resp'.kind = "report"
                  /\ resp'.status = 404
                  /\ inflight' = inflight]_vars

\* A request on a session the sweep evicted was answered 404
C4_Witness ==
    /\ resp.status = 404
    /\ resp.rid = nreq
    /\ Evicted(resp.sessionId)

\* C5: a next-question request with questionNumber 1 and a non-empty
\* selectedAnswer on a live session sets businessType to the answer and
\* appends exactly the entry "Question 1: <answer>" to answers, and the end
\* of its generator call, in success or in failure, changes neither.
C5_FirstAnswerStored ==
    [][/\ \A sid \in Uuids, selectedAnswer \in SelectedAnswerInputs \ {""} :
            (/\ nreq' # nreq
             /\ MapHas(sessions, sid)
             /\ NextQuestion(sid, selectedAnswer, 1)) =>
                /\ MapHas(sessions', sid)
                /\ sessions'[sid].businessType = selectedAnswer
                /\ sessions'[sid].answers =
                      Append(sessions[sid].answers,
                             <<"Question ", "1", ": ", selectedAnswer>>)
                /\ \A other \in Uuids \ {sid} :
                      MapHas(sessions', other) = MapHas(sessions, other)
       /\ \A r \in inflight :
            (r.kind = "next" /\ r \notin inflight') => sessions' = sessions]_vars

\* The generator call of a first answer failed and the answer is stored
C5_Witness ==
    /\ resp.kind = "next"
    /\ resp.status = 500
    /\ MapHas(sessions, resp.sessionId)
    /\ sessions[resp.sessionId].businessType = "A"
    /\ sessions[resp.sessionId].answers = << <<"Question ", "1", ": ", "A">> >>

\* C6: a sweep at time now removes every session with
\* now - lastActivity > 1800 s and leaves every other session in the store
\* with its fields unchanged.
C6_SweepBoundary ==
    [][nextSweep' # nextSweep =>
        /\ DOMAIN sessions' \subseteq DOMAIN sessions
        /\ \A sid \in DOMAIN sessions :
              IF now - sessions[sid].lastActivity > IdleMs
              THEN ~MapHas(sessions', sid)
              ELSE MapHas(sessions', sid) /\ sessions'[sid] = sessions[sid]]_vars

\* A sweep has evicted one session and kept one that had been idle for
\* exactly 1800 s
C6_Witness ==
    /\ nextSweep > SweepPeriodMs
    /\ \E gone \in Uuids : Evicted(gone)
    /\ \E kept \in DOMAIN sessions :
          (nextSweep - SweepPeriodMs) - sessions[kept].lastActivity = IdleMs

\* C7: a next-question or generate-report request answered 400 or 404
\* leaves the session store as it was.
C7_FailedRequestNoMutation ==
    [][(/\ resp'.rid # resp.rid
        /\ resp'.kind \in {"next", "report"}
        /\ resp'.status \in {400, 404}) => sessions' = sessions]_vars

\* A request naming a live session was answered 400
C7_Witness ==
    /\ resp.status = 400
    /\ MapHas(sessions, resp.sessionId)

\* C8: when the generator call of a next-question request fails, the
\* request is answered 500, the store is left as it is (the answer the
\* request appended stays in the session, as does a businessType, and the
\* session is not removed), and no generator call is started in its place.
C8_QuestionFailureKeepsAnswer ==
    [][\A r \in inflight \ inflight' :
        (r.kind = "next" /\ NextQuestionFail(r)) =>
            /\ resp'.rid = r.rid
            /\ resp'.status = 500
            /\ ~resp'.body.success
            /\ sessions' = sessions
            /\ inflight' = inflight \ {r}
            /\ MapHas(sessions, r.sessionId) =>
                  /\ \E i \in 1..Len(sessions'[r.sessionId].answers) :
                        sessions'[r.sessionId].answers[i] =
                            <<"Question ", ToString(r.questionNumber), ": ",
                              r.selectedAnswer>>
                  /\ r.questionNumber = 1 =>
                        sessions'[r.sessionId].businessType # Null]_vars

C8_Witness ==
    /\ resp.kind = "next"
    /\ resp.status = 500
    /\ MapHas(sessions, resp.sessionId)
    /\ sessions[resp.sessionId].answers = << <<"Question ", "5", ": ", "B">> >>
    /\ inflight = {}

\* C9 as stated: when the generator call of a generate-report request
\* fails, the request is answered 500 and the session is in the store with
\* every field, lastActivity included, as it was before the request.
C9_ReportFailureUntouched ==
    [][\A r \in inflight \ inflight' :
        (r.kind = "report" /\ GenerateReportFail(r)) =>
            /\ resp'.status = 500
            /\ MapHas(sessions', r.sessionId)
            /\ sessions'[r.sessionId] = r.before]_vars

\* C9 amended: the request is answered 500 and its handler neither removes
\* nor changes any session when the call fails; all the request did to the
\* record is to set lastActivity to the time of its lookup.
C9_ReportFailureKeepsSession ==
    [][/\ \A r \in inflight \ inflight' :
            (r.kind = "report" /\ GenerateReportFail(r)) =>
                /\ resp'.rid = r.rid
                /\ resp'.status = 500
                /\ ~resp'.body.success
                /\ sessions' = sessions
       /\ \A sid \in Uuids :
            (nreq' # nreq /\ MapHas(sessions, sid) /\ GenerateReport(sid)) =>
                /\ DOMAIN sessions' = DOMAIN sessions
                /\ \A other \in DOMAIN sessions \ {sid} :
                      sessions'[other] = sessions[other]
                /\ sessions'[sid].businessType = sessions[sid].businessType
                /\ sessions'[sid].answers = sessions[sid].answers
                /\ sessions'[sid].lastActivity = now]_vars

\* A generate-report failed on a session whose lastActivity it had moved
C9_Witness ==
    /\ resp.kind = "report"
    /\ resp.status = 500
    /\ MapHas(sessions, resp.sessionId)
    /\ sessions[resp.sessionId].lastActivity = 1
    /\ sessions[resp.sessionId].answers # <<>>

\* C10: once a session's businessType is set it never changes while the
\* session lives.
C10_BusinessTypeSetOnce ==
    [][\A sid \in DOMAIN sessions \cap DOMAIN sessions' :
        sessions[sid].businessType # Null =>
            sessions'[sid].businessType = sessions[sid].businessType]_vars

IsPrefix(s, t) == Len(s) <= Len(t) /\ SubSeq(t, 1, Len(s)) = s

\* C11: answers only grows at its end: over every step, a session that stays
\* in the store keeps its previous answers as a prefix of the new ones; a
\* next-question request that passes validation and lookup appends exactly
\* its own entry, so entries stand in the order of acceptance; every other
\* step leaves answers as it was.
C11_AnswersAppendOnly ==
    [][\A sid \in DOMAIN sessions \cap DOMAIN sessions' :
        LET old == sessions[sid].answers
            new == sessions'[sid].answers
            accepted == {r \in inflight' \ inflight :
                            r.kind = "next" /\ r.sessionId = sid}
        IN  /\ IsPrefix(old, new)
            /\ \A r \in accepted :
                    /\ r.rid = nreq'
                    /\ new = Append(old, <<"Question ", ToString(r.questionNumber),
                                           ": ", r.selectedAnswer>>)
            /\ accepted = {} => new = old]_vars

C11_Witness ==
    \E sid \in DOMAIN sessions :
        /\ Len(sessions[sid].answers) = 2
        /\ sessions[sid].answers[1] # sessions[sid].answers[2]
        /\ \E r \in inflight : r.kind = "next" /\ r.sessionId = sid

Started(session) == session.businessType = Null /\ session.answers = <<>>

InProgress(session) ==
    session.businessType # Null /\ Len(session.answers) \in 1..4

\* C13: every session in the store for which no response has signalled
\* completion is Started (businessType null, no answers) or InProgress
\* (businessType set, 1 to 4 answers); in particular none has answers while
\* businessType is null.
C13_StartedOrInProgress ==
    \A sid \in DOMAIN sessions :
        sid \notin completed =>
            Started(sessions[sid]) \/ InProgress(sessions[sid])

\* C14: a successful next-question response has isComplete = TRUE exactly
\* when the questionNumber the caller supplied is at least 5, and carries
\* that number plus one; a request is accepted with the number it supplies
\* whatever the count of answers already recorded (a skipped or repeated
\* number is not rejected).
C14_CompletionFromSuppliedNumber ==
    [][/\ \A r \in inflight \ inflight' :
            (r.kind = "next" /\ resp'.rid = r.rid /\ resp'.status = 200) =>
                /\ resp'.body.data.isComplete = (r.questionNumber >= 5)
                /\ resp'.body.data.questionNumber = r.questionNumber + 1
       /\ \A sid \in DOMAIN sessions, q \in TurnNumberInputs :
            (nreq' # nreq /\ NextQuestion(sid, "A", q)) =>
                \E r \in inflight' \ inflight :
                    /\ r.rid = nreq'
                    /\ r.questionNumber = q
                    /\ Len(sessions'[sid].answers) = Len(sessions[sid].answers) + 1
      ]_vars

\* A response that signals completion on the third answer of a session: the
\* caller repeated a number and then skipped to 5
C14_Witness ==
    /\ resp.kind = "next"
    /\ resp.status = 200
    /\ resp.body.data.isComplete
    /\ resp.body.data.questionNumber = 6
    /\ \E sid \in DOMAIN sessions :
        /\ sid = resp.sessionId
        /\ Len(sessions[sid].answers) = 3
        /\ sessions[sid].answers[1] = sessions[sid].answers[2]

\* C15: whenever a session has five or more entries in answers and every
\* next-question call on it has been answered with success (none is still
\* suspended; no generator call fails in SpecTurns), some response for it
\* has carried isComplete = true.
C15_FiveTurnsComplete ==
    \A sid \in DOMAIN sessions :
        (/\ Len(sessions[sid].answers) >= 5
         /\ \A r \in inflight : r.sessionId # sid
         /\ resp.status = 200)
            => sid \in completed

\* C16: the score of every Report returned is an integer from 0 to 100, and
\* it is 0 when the generated text has no "Chaos score: <digits>" match.
C16_ScoreInRange ==
    (resp.kind = "report" /\ resp.status = 200 /\ gen.rid = resp.rid) =>
        /\ resp.body.data.score \in 0..100
        /\ ScoreMatches(Trim(gen.content)) = {} => resp.body.data.score = 0

\* A line of the form "letter A-D, period, space, text"
WellFormedOption(line) ==
    /\ Len(line) >= 3
    /\ line[1] \in {"A", "B", "C", "D"}
    /\ line[2] = "."
    /\ line[3] = " "

\* C17: the question of a next-question response is the first non-blank
\* line of the generated text (empty when there is none), and options is,
\* in order, exactly those of the next four non-blank lines that have the
\* form "letter A-D, period, space, text"; it never has more than 4 entries.
C17_QuestionExtraction ==
    (resp.kind = "next" /\ resp.status = 200 /\ gen.rid = resp.rid) =>
        LET lines == NonBlankLines(Trim(gen.content))
            next4 == SubSeq(lines, 2, Min(5, Len(lines)))
        IN  /\ resp.body.data.question = IF lines = <<>> THEN <<>> ELSE lines[1]
            /\ resp.body.data.options = SelectSeq(next4, WellFormedOption)
            /\ Len(resp.body.data.options) <= 4

\* The part of a next-question prompt between "Previous answers: " and the
\* closing instruction
PromptAnswers(prompt) == SubSeq(prompt, 4, Len(prompt) - 1)

EntryOf(r) == <<"Question ", ToString(r.questionNumber), ": ", r.selectedAnswer>>

\* Two next-question requests suspended on one live session
Racing(r1, r2) ==
    /\ r1.kind = "next" /\ r2.kind = "next"
    /\ r1.sessionId = r2.sessionId
    /\ r1.rid < r2.rid
    /\ MapHas(sessions, r1.sessionId)

\* C18: when two next-question requests on one session are both suspended
\* at the generator call, both answers are already in answers, in the order
\* of arrival, and the prompt of the earlier request holds the answers up
\* to its own entry only: it lacks the later request's answer.
C18_EarlierPromptLacksLaterAnswer ==
    \A r1, r2 \in inflight :
        Racing(r1, r2) =>
            LET answers == sessions[r1.sessionId].answers IN
            \E k1, k2 \in 1..Len(answers) :
                /\ k1 < k2
                /\ answers[k1] = EntryOf(r1)
                /\ answers[k2] = EntryOf(r2)
                /\ PromptAnswers(r1.prompt) = Join(SubSeq(answers, 1, k1), <<"; ">>)
                /\ PromptAnswers(r2.prompt) = Join(SubSeq(answers, 1, k2), <<"; ">>)

\* Both requests have appended before either generator call returned, the
\* one numbered 5 ahead of the one numbered 1
C18_Witness ==
    \E r1, r2 \in inflight :
        /\ Racing(r1, r2)
        /\ r1.questionNumber > r2.questionNumber
        /\ sessions[r1.sessionId].answers = <<EntryOf(r1), EntryOf(r2)>>
        /\ PromptAnswers(r1.prompt) = EntryOf(r1)
        /\ gen = NoGen

C20_IdleSessionsRemoved ==
    /\ \A sid \in Uuids : MapHas(sessions, sid) ~> ~MapHas(sessions, sid)
    /\ [][nextSweep' # nextSweep =>
            \A sid \in DOMAIN sessions \ DOMAIN sessions' :
                now - sessions[sid].lastActivity > 1800 * 1000]_vars

\* A second sweep has run and a session with an answer recorded and a request
\* still suspended on it has been evicted
C20_Witness ==
    /\ nextSweep > 2 * SweepPeriodMs
    /\ \E sid \in Issued :
        /\ Evicted(sid)
        /\ \E r \in inflight : r.sessionId = sid /\ r.kind = "next"

====
